---- MODULE Spec2Model ----
(***************************************************************************)
(* State-machine model of the HydroLink cloud client                       *)
(* (custom_components/hydrolink/api.py): HydroLinkApi.login, the           *)
(* orchestrator HydroLinkApi.get_data and the Live-Refresh worker          *)
(* HydroLinkApi._start_ws with its on_message callback.                    *)
(*                                                                         *)
(* get_data runs on one thread (the orchestrator) and is modelled one      *)
(* blocking call per step.  Every threading.Thread it starts is a worker   *)
(* with its own position; all workers share the three instance fields      *)
(* ws_message_count, waiting_for_ws_thread_to_end and ws_uri.              *)
(* `self.ws_message_count += 1` is taken as one step (no thread switch     *)
(* inside it under the CPython interpreter lock).                          *)
(*                                                                         *)
(* The vendor backend is the environment.  What it may do in one run is    *)
(* fixed by env: Spec explores get_data over every small device list with  *)
(* a few pushed messages, SessionSpec one Live-Refresh session with enough *)
(* pushed messages to pass the close threshold.                            *)
(*                                                                         *)
(* Around the client: trigger_regeneration (ApiSpec), a get_data and a     *)
(* trigger_regeneration racing on one client (RaceSpec), the coordinator's *)
(* update (CoordSpec), the entry setup and unload of __init__.py           *)
(* (HostSpec), the service handler of services.py (ServiceSpec), the user  *)
(* step of config_flow.py (FlowSpec) and native_value of sensor.py         *)
(* (SensorSpec).                                                           *)
(***************************************************************************)
EXTENDS Integers, Sequences, FiniteSets, TLC

\* ------------------------------------------------------------------ bounds
MaxDevices  == 2    \* Spec: longest device list the server returns
MaxThreads  == 2    \* Spec: threads started over the whole run
MaxCalls    == 1    \* Spec: get_data calls over the whole run
FewMsgs     == 1    \* Spec: messages the server pushes over the whole run
WaitPolls   == 2    \* polls of the wait loop that fit in the 15 s budget
MaxRecv     == 18   \* SessionSpec: messages the server pushes
SessDevices == 1    \* SessionSpec, ApiSpec, CoordSpec: longest device list
SessThreads == 1    \* SessionSpec, ApiSpec, CoordSpec: threads started
SessCalls   == 1    \* SessionSpec, ApiSpec, CoordSpec: get_data calls
MaxRegens   == 2    \* ApiSpec: trigger_regeneration calls over the whole run
MaxSetups   == 3    \* HostSpec: async_setup_entry calls over the whole run
MaxServices == 2    \* ServiceSpec: service calls over the whole run
MaxSteps    == 3    \* FlowSpec: async_step_user calls over the whole run

\* ------------------------------------------------------- program constants
Threshold == 17     \* on_message closes at ws_message_count >= 17

None == "None"      \* Python None
NoId == ""          \* device.get("id") absent or empty
Tokens == {"t1", "t2"}
CookieValues == Tokens \cup {None}

\* ------------------------------------------------------------- server data
Dev(id, v, t) == [id |-> id, value |-> v, ts |-> t]

DeviceRecords == { Dev("d1", 750, 1), Dev("d2", 770, 2), Dev(NoId, 5, 3) }

\* a list names each device once
Payloads(n) ==
    UNION { { p \in [1..k -> DeviceRecords] :
                \A i, j \in 1..k : p[i] = p[j] => i = j } : k \in 0..n }

NoData == [hasData |-> FALSE, data |-> <<>>]

\* the JSON body of a device-list response: {"data": [...]} or no data key
ListBodies(n) == { [hasData |-> TRUE, data |-> p] : p \in Payloads(n) } \cup {NoData}

\* the JSON body of a live-descriptor response: websocket_uri or None
WsPath(id) == "/ws/" \o id
WS_BASE_URL == "wss://api.hydrolinkhome.com"
LiveBodies(id) == { WsPath(id), None }

Statuses == {200, 401, 404, 429, 500}

Timeout == [kind |-> "timeout"]
ConnErr == [kind |-> "connerr"]

LoginExchanges ==
    {Timeout, ConnErr}
        \cup { [kind |-> "response", status |-> s, cookie |-> c] :
                 s \in Statuses, c \in CookieValues }

ListExchanges(n) ==
    {Timeout, ConnErr}
        \cup { [kind |-> "response", status |-> s, body |-> NoData] :
                 s \in Statuses \ {200} }
        \cup { [kind |-> "response", status |-> 200, body |-> b] : b \in ListBodies(n) }

LiveExchanges(id) ==
    {Timeout, ConnErr}
        \cup { [kind |-> "response", status |-> s, uri |-> None] : s \in Statuses \ {200} }
        \cup { [kind |-> "response", status |-> 200, uri |-> u] : u \in LiveBodies(id) }

\* ------------------------------------------------------------------- state
VARIABLES
    auth_cookie,                    \* self.auth_cookie
    ws_message_count,               \* self.ws_message_count
    waiting_for_ws_thread_to_end,   \* self.waiting_for_ws_thread_to_end
    ws_uri,                         \* self.ws_uri
    gd,                             \* the frame of the running get_data call
    ws,                             \* the worker threads
    nthreads,                       \* threads started so far
    calls,                          \* get_data calls so far
    pushed,                         \* messages pushed by the server so far
    env,                            \* what the environment does in this run
    obs,                            \* what the latest operation did
    tr,                             \* the frame of the running trigger_regeneration call
    regens,                         \* trigger_regeneration calls so far
    co,                             \* the coordinator's update in progress
    hass                            \* the host: hass.data and the platforms

vars == << auth_cookie, ws_message_count, waiting_for_ws_thread_to_end, ws_uri,
           gd, ws, nthreads, calls, pushed, env, obs, tr, regens, co, hass >>

Workers == 1..(IF MaxThreads > SessThreads THEN MaxThreads ELSE SessThreads)

\* bad: whether the session handled a malformed message, as its latest one
\* ("last") or before its latest one ("earlier")
NoWorker == [pc |-> "none", recv |-> 0, closeCalls |-> 0, abandoned |-> FALSE,
             bad |-> "none"]

IdleFrame == [pc |-> "idle", devices |-> <<>>, idx |-> 0, polls |-> 0,
              ws_thread |-> 0]

\* no request made
NoExchange == [kind |-> "none"]

NoObs == [op |-> "none", ret |-> "none", result |-> <<>>, login |-> "none",
          hadCookie |-> FALSE, listReqs |-> 0, liveReqs |-> 0, liveFails |-> 0,
          afterSkip |-> FALSE, saw401 |-> "none", body2 |-> NoData,
          differs |-> FALSE, timedOut |-> FALSE, setter |-> 0, cause |-> "none",
          loginReqs |-> 0, lx |-> NoExchange, posts |-> 0, fx |-> NoExchange,
          after401 |-> FALSE, noUri |-> FALSE, sent |-> {}]

TrIdle == [pc |-> "idle", device |-> NoId]

\* no update of the coordinator in progress, none made
CoIdle == [pc |-> "idle", n |-> 0, fetches |-> 0, got |-> "none",
           out |-> "none", data |-> <<>>]

\* config entries of the integration
Entries == {"e1", "e2"}

NoLast == [op |-> "none", entry |-> "", ret |-> "none", coord |-> 0,
           hadDomain |-> FALSE, fwdBefore |-> 0, got |-> "none",
           fwd |-> "none", unloadOk |-> FALSE]

\* no trigger_regeneration service call running, none made
NoSvc == [pc |-> "idle", device |-> NoId, found |-> "none", ret |-> "none",
          regens0 |-> 0, n |-> 0]

\* async_step_user(user_input=None)
NoInput == [given |-> FALSE, email |-> "", password |-> ""]

\* the form as submitted; an empty string is a field left empty
UserInputs ==
    {NoInput} \cup { [given |-> TRUE, email |-> e, password |-> p] :
                        e \in {"", "a@x", "b@x"}, p \in {"", "pw"} }

\* no step of the configuration flow made; entries are the config entries
\* created so far, by unique id
NoFlow == [n |-> 0, input |-> NoInput, login |-> "none", lx |-> NoExchange,
           type |-> "none", errors |-> "none", title |-> "",
           data |-> NoInput, entries |-> {}, before |-> {}]

\* Python values a property's "value" key holds or a sensor reports: numbers
\* are num/den, a true division gives a float
PyInt(n) == [kind |-> "int", num |-> n, den |-> 1, text |-> ""]
PyFloat(n, d) == [kind |-> "float", num |-> n, den |-> d, text |-> ""]
PyBool(b) == [kind |-> "bool", num |-> IF b THEN 1 ELSE 0, den |-> 1, text |-> ""]
PyStr(t) == [kind |-> "str", num |-> 0, den |-> 1, text |-> t]
PyNone == [kind |-> "none", num |-> 0, den |-> 1, text |-> ""]

RawValues ==
    { PyInt(n) : n \in {-1, 0, 25, 750, 6670, 86400} }
        \cup { PyFloat(1, 2), PyBool(TRUE), PyBool(FALSE), PyStr("unknown"),
               PyStr("EWS"), PyNone }

\* property names the server sends, with and without a sensor description
PropertyNames ==
    { "salt_level_tenths", "iron_level_tenths_ppm", "tlc_avg_temp_tenths_c",
      "capacity_remaining_percent", "avg_salt_per_regen_lbs",
      "total_salt_use_lbs", "current_time_secs", "gallons_used_today",
      "model_description", "tenths_total" }

\* an exception raised instead of a value
PyRaise(t) == [kind |-> "raise", num |-> 0, den |-> 1, text |-> t]

\* what the latest snapshot lacks of a sensor: nothing, the sensor's device,
\* or the device's entry for the sensor's property
Missings == {"none", "device", "property"}

\* no sensor read yet
NoSensor == [property |-> "", raw |-> PyNone, value |-> PyNone, read |-> FALSE,
             missing |-> "none"]

\* the host before the integration is loaded: hass.data has no DOMAIN key;
\* reg[e] is the coordinator stored under entry id e (0: no such key), fwd[e]
\* the forwards of entry e to the platforms, ncoord the coordinators created,
\* service whether the trigger_regeneration service is registered, svc the
\* frame of its handler
NoHass == [domain |-> FALSE, reg |-> [e \in Entries |-> 0],
           fwd |-> [e \in Entries |-> 0], ncoord |-> 0, last |-> NoLast,
           service |-> FALSE, svc |-> NoSvc, flow |-> NoFlow,
           sensor |-> NoSensor]

Alive(w) == ws[w].pc \in {"new", "open", "closing"}

\* ------------------------------------------------------------ pure helpers
\* requests.Response.raise_for_status
RaiseForStatus(status) == status >= 400 /\ status < 600

\* response.json().get("data", [])
JsonData(body) == IF body.hasData THEN body.data ELSE <<>>

\* `not self.auth_cookie`
Falsy(c) == c = None

\* mutant: no 401 check, the response goes to raise_for_status
Login_No401Check(cookie, x) ==
    IF x.kind # "response" THEN [kind |-> "CannotConnect", cookie |-> cookie]
    ELSE IF RaiseForStatus(x.status) THEN [kind |-> "CannotConnect", cookie |-> cookie]
    ELSE IF Falsy(x.cookie) THEN [kind |-> "CannotConnect", cookie |-> x.cookie]
    ELSE [kind |-> "ok", cookie |-> x.cookie]

\* mutant: no `except requests.Timeout`, the timeout leaves login as it is
Login_TimeoutUncaught(cookie, x) ==
    IF x.kind = "timeout" THEN [kind |-> "Timeout", cookie |-> cookie]
    ELSE IF x.kind # "response" THEN [kind |-> "CannotConnect", cookie |-> cookie]
    ELSE IF x.status = 401 THEN [kind |-> "InvalidAuth", cookie |-> cookie]
    ELSE IF RaiseForStatus(x.status) THEN [kind |-> "CannotConnect", cookie |-> cookie]
    ELSE IF Falsy(x.cookie) THEN [kind |-> "CannotConnect", cookie |-> x.cookie]
    ELSE [kind |-> "ok", cookie |-> x.cookie]

\* mutant: a 2xx response is a success whether or not it carries the cookie
Login_AcceptsNoCookie(cookie, x) ==
    IF x.kind # "response" THEN [kind |-> "CannotConnect", cookie |-> cookie]
    ELSE IF x.status = 401 THEN [kind |-> "InvalidAuth", cookie |-> cookie]
    ELSE IF RaiseForStatus(x.status) THEN [kind |-> "CannotConnect", cookie |-> cookie]
    ELSE [kind |-> "ok", cookie |-> x.cookie]

\* HydroLinkApi.login: the kind it ends with and the cookie it leaves
Login(cookie, x) ==
    IF x.kind # "response" THEN [kind |-> "CannotConnect", cookie |-> cookie]
    ELSE IF x.status = 401 THEN [kind |-> "InvalidAuth", cookie |-> cookie]
    ELSE IF x.status = 429 THEN [kind |-> "CannotConnect", cookie |-> cookie]
    ELSE IF x.status >= 500 THEN [kind |-> "CannotConnect", cookie |-> cookie]
    ELSE IF RaiseForStatus(x.status) THEN [kind |-> "CannotConnect", cookie |-> cookie]
    ELSE IF Falsy(x.cookie) THEN [kind |-> "CannotConnect", cookie |-> x.cookie]
    ELSE [kind |-> "ok", cookie |-> x.cookie]

\* HydroLinkApi.__init__
Constructed ==
    /\ auth_cookie = None
    /\ ws_message_count = 0
    /\ waiting_for_ws_thread_to_end = 1
    /\ ws_uri = ""
    /\ gd = IdleFrame
    /\ ws = [w \in Workers |-> NoWorker]
    /\ nthreads = 0
    /\ calls = 0
    /\ pushed = 0
    /\ obs = NoObs
    /\ tr = TrIdle
    /\ regens = 0
    /\ co = CoIdle
    /\ hass = NoHass

Init ==
    /\ Constructed
    /\ env = [devs |-> MaxDevices, threads |-> MaxThreads, calls |-> MaxCalls,
              msgs |-> FewMsgs, regens |-> 0]

SessionInit ==
    /\ Constructed
    /\ env = [devs |-> SessDevices, threads |-> SessThreads, calls |-> SessCalls,
              msgs |-> MaxRecv, regens |-> 0]

HostInit ==
    /\ Constructed
    /\ env = [devs |-> 0, threads |-> 0, calls |-> 0, msgs |-> 0, regens |-> 0]

\* the host after async_setup_entry has set up the first entry: its first
\* refresh has logged the coordinator's client in
ServiceInit ==
    /\ auth_cookie = "t1"
    /\ ws_message_count = 0
    /\ waiting_for_ws_thread_to_end = 1
    /\ ws_uri = ""
    /\ gd = IdleFrame
    /\ ws = [w \in Workers |-> NoWorker]
    /\ nthreads = 0
    /\ calls = 0
    /\ pushed = 0
    /\ obs = NoObs
    /\ tr = TrIdle
    /\ regens = 0
    /\ co = CoIdle
    /\ hass = [NoHass EXCEPT
                 !.domain = TRUE, !.reg["e1"] = 1, !.fwd["e1"] = 1,
                 !.ncoord = 1, !.service = TRUE,
                 !.last = [NoLast EXCEPT !.op = "async_setup_entry",
                                         !.entry = "e1", !.ret = "True",
                                         !.coord = 1, !.got = "ok",
                                         !.fwd = "ok"]]
    /\ env = [devs |-> 0, threads |-> 0, calls |-> 0, msgs |-> 0,
              regens |-> MaxRegens]

RaceInit ==
    /\ Constructed
    /\ env = [devs |-> SessDevices, threads |-> SessThreads, calls |-> SessCalls,
              msgs |-> FewMsgs, regens |-> 1]

CoordInit ==
    /\ Constructed
    /\ env = [devs |-> SessDevices, threads |-> SessThreads, calls |-> SessCalls,
              msgs |-> FewMsgs, regens |-> 0]

ApiInit ==
    /\ Constructed
    /\ env = [devs |-> SessDevices, threads |-> SessThreads, calls |-> SessCalls,
              msgs |-> FewMsgs, regens |-> MaxRegens]

\* ------------------------------------------------------- get_data, by step
\* mutant: login called inside the try, its failure reported as CannotConnect
GetDataEntry_Wrapped(cookie, x) ==
    IF Falsy(cookie)
    THEN LET l == Login(cookie, x) IN
         [login |-> l.kind, cookie |-> l.cookie, lx |-> x,
          ret |-> IF l.kind = "ok" THEN "none" ELSE "CannotConnect"]
    ELSE [login |-> "none", cookie |-> cookie, lx |-> NoExchange, ret |-> "none"]

\* lines 320-322: `if not self.auth_cookie: self.login()`, outside the try
GetDataEntry(cookie, x) ==
    IF Falsy(cookie)
    THEN LET l == Login(cookie, x) IN
         [login |-> l.kind, cookie |-> l.cookie, lx |-> x,
          ret |-> IF l.kind = "ok" THEN "none" ELSE l.kind]
    ELSE [login |-> "none", cookie |-> cookie, lx |-> NoExchange, ret |-> "none"]

\* lines 326-339: how the first list request ends
List1Step(x) ==
    IF x.kind # "response" THEN "CannotConnect"
    ELSE IF x.status = 401 THEN "InvalidAuth"
    ELSE IF RaiseForStatus(x.status) THEN "CannotConnect"
    ELSE "ok"

\* mutant: no inner except, a request exception leaves the loop
LiveStep_NoInnerExcept(x) ==
    IF x.kind # "response" THEN "raise"
    ELSE IF RaiseForStatus(x.status) THEN "raise"
    ELSE IF Falsy(x.uri) THEN "skip"
    ELSE "start"

\* mutant: a descriptor without websocket_uri is not looked at
LiveStep_NoUriCheck(x) ==
    IF x.kind # "response" THEN "skip"
    ELSE IF RaiseForStatus(x.status) THEN "skip"
    ELSE "start"

\* lines 350-361 and 393: how the live-descriptor request of one device ends
LiveStep(x) ==
    IF x.kind # "response" THEN "skip"
    ELSE IF RaiseForStatus(x.status) THEN "skip"
    ELSE IF Falsy(x.uri) THEN "skip"
    ELSE "start"

\* mutant: the wait loop has no time budget
WaitExpired_Never(polls) == FALSE

\* lines 376-383: the loop leaves on `time.time() - start_time > 15`
WaitExpired(polls) == polls >= WaitPolls

\* lines 401-416: how the second list request ends
List2Step(x) ==
    IF x.kind # "response" THEN "CannotConnect"
    ELSE IF RaiseForStatus(x.status) THEN "CannotConnect"
    ELSE "ok"

\* mutant: the list of the first response is returned
GetDataResult_First(devices, body) == devices

\* line 409: the value get_data returns
GetDataResult(devices, body) == JsonData(body)

Is401(x) == x.kind = "response" /\ x.status = 401

\* a live descriptor that came without websocket_uri
NoUri(x) == x.kind = "response" /\ ~RaiseForStatus(x.status) /\ Falsy(x.uri)

\* what came back on the wire, without the body
Wire(x) == IF x.kind = "response"
           THEN [kind |-> "response", status |-> x.status]
           ELSE [kind |-> x.kind]

\* the wait loop in progress: the worker whose exit set the flag, and why it
\* ended; forgotten when the loop is left
Released(o, w, cause) == [o EXCEPT !.setter = w, !.cause = cause]

\* the call returns or raises: its frame is gone
Returned(o, kind, result) == [o EXCEPT !.ret = kind, !.result = result]

\* api.login() called by the owner of the client, between its other calls
LoginCall(x) ==
    /\ gd.pc = "idle" /\ tr.pc = "idle" /\ co.pc = "idle"
    /\ LET l == Login(auth_cookie, x) IN
         /\ auth_cookie' = l.cookie
         /\ obs' = [NoObs EXCEPT !.op = "login", !.login = l.kind, !.ret = l.kind,
                                 !.hadCookie = ~Falsy(auth_cookie),
                                 !.loginReqs = 1, !.lx = x]
    /\ UNCHANGED << ws_message_count, waiting_for_ws_thread_to_end, ws_uri,
                    gd, ws, nthreads, calls, pushed, env >>
    /\ UNCHANGED << tr, regens, co, hass >>

\* get_data is entered: login when no cookie is stored
GetDataStart(x) ==
    /\ gd.pc = "idle" /\ tr.pc = "idle"
    /\ calls < env.calls
    /\ calls' = calls + 1
    /\ LET e == GetDataEntry(auth_cookie, x) IN
         /\ auth_cookie' = e.cookie
         /\ obs' = [NoObs EXCEPT !.op = "get_data", !.login = e.login,
                                 !.hadCookie = ~Falsy(auth_cookie),
                                 !.ret = e.ret, !.lx = e.lx,
                                 !.loginReqs = IF e.login = "none" THEN 0 ELSE 1]
         /\ gd' = IF e.ret = "none"
                  THEN [IdleFrame EXCEPT !.pc = "list1"]
                  ELSE IdleFrame
    /\ UNCHANGED << ws_message_count, waiting_for_ws_thread_to_end, ws_uri,
                    ws, nthreads, pushed, env >>
    /\ UNCHANGED << tr, regens, hass >>

\* api.get_data() called by the owner of the client
GetDataCall(x) ==
    /\ co.pc = "idle"
    /\ GetDataStart(x)
    /\ UNCHANGED co

\* the first GET /devices
GdList1(x) ==
    /\ gd.pc = "list1"
    /\ LET k == List1Step(x)
           o == [obs EXCEPT !.listReqs = @ + 1,
                            !.sent = @ \cup {auth_cookie},
                            !.saw401 = IF Is401(x) THEN "list1" ELSE @] IN
         /\ auth_cookie' = IF k = "InvalidAuth" THEN None ELSE auth_cookie
         /\ gd' = IF k = "ok"
                  THEN [gd EXCEPT !.pc = "device", !.devices = JsonData(x.body),
                                  !.idx = 1]
                  ELSE IdleFrame
         /\ obs' = IF k = "ok" THEN o ELSE Returned([o EXCEPT !.fx = Wire(x)], k, <<>>)
    /\ UNCHANGED << ws_message_count, waiting_for_ws_thread_to_end, ws_uri,
                    ws, nthreads, calls, pushed, env >>
    /\ UNCHANGED << tr, regens, co, hass >>

\* `for device in devices` is exhausted
GdLoopEnd ==
    /\ gd.pc = "device"
    /\ gd.idx > Len(gd.devices)
    /\ gd' = [gd EXCEPT !.pc = "list2"]
    /\ UNCHANGED << auth_cookie, ws_message_count,
                    waiting_for_ws_thread_to_end, ws_uri, ws, nthreads,
                    calls, obs, pushed, env >>
    /\ UNCHANGED << tr, regens, co, hass >>

\* lines 344-347: a device without id is skipped
GdSkipNoId ==
    /\ gd.pc = "device"
    /\ gd.idx <= Len(gd.devices)
    /\ gd.devices[gd.idx].id = NoId
    /\ gd' = [gd EXCEPT !.idx = @ + 1]
    /\ UNCHANGED << auth_cookie, ws_message_count,
                    waiting_for_ws_thread_to_end, ws_uri, ws, nthreads,
                    calls, pushed, env, obs >>
    /\ UNCHANGED << tr, regens, co, hass >>

\* mutant: the thread is started and the loop goes on without waiting
AfterThreadStart_NoWait == "device"

\* line 374: after ws_thread.start() the orchestrator enters the wait loop
AfterThreadStart == "wait"

\* lines 349-372: GET /devices/{id}/live, then the thread is started
GdLive(x) ==
    /\ gd.pc = "device"
    /\ gd.idx <= Len(gd.devices)
    /\ gd.devices[gd.idx].id # NoId
    /\ LET k == LiveStep(x)
           o == [obs EXCEPT !.liveReqs = @ + 1,
                            !.sent = @ \cup {auth_cookie},
                            !.noUri = NoUri(x),
                            !.saw401 = IF Is401(x) THEN "live" ELSE @] IN
         CASE k = "start" ->
                /\ nthreads < env.threads
                /\ ws_uri' = WS_BASE_URL \o x.uri
                /\ waiting_for_ws_thread_to_end' = 1
                /\ nthreads' = nthreads + 1
                /\ ws' = [ws EXCEPT ![nthreads + 1] = [NoWorker EXCEPT !.pc = "new"]]
                /\ gd' = [gd EXCEPT !.pc = AfterThreadStart, !.polls = 0,
                                    !.ws_thread = nthreads + 1]
                /\ obs' = [o EXCEPT !.afterSkip = o.liveFails > 0]
           [] k = "skip" ->
                \* `continue`, or the inner except of line 393
                /\ gd' = [gd EXCEPT !.idx = @ + 1]
                /\ obs' = [o EXCEPT !.liveFails = @ + 1]
                /\ UNCHANGED << ws_uri, waiting_for_ws_thread_to_end, nthreads, ws >>
           [] OTHER ->
                \* an exception the inner except lets through: lines 411-416
                /\ gd' = IdleFrame
                /\ obs' = Returned([o EXCEPT !.liveFails = @ + 1], "CannotConnect", <<>>)
                /\ UNCHANGED << ws_uri, waiting_for_ws_thread_to_end, nthreads, ws >>
    /\ UNCHANGED << auth_cookie, ws_message_count, calls, pushed, env >>
    /\ UNCHANGED << tr, regens, co, hass >>

\* lines 376-383: one round of the wait loop
GdWait ==
    /\ gd.pc = "wait"
    /\ IF waiting_for_ws_thread_to_end = 0
       THEN /\ gd' = [gd EXCEPT !.pc = "join"]
            /\ obs' = Released(obs, 0, "none")
       ELSE LET p == gd.polls + 1 IN
            /\ p <= WaitPolls
            /\ gd' = [gd EXCEPT !.polls = p,
                                !.pc = IF WaitExpired(p) THEN "join" ELSE "wait"]
            /\ obs' = IF WaitExpired(p)
                      THEN [Released(obs, 0, "none") EXCEPT !.timedOut = TRUE]
                      ELSE obs
    /\ UNCHANGED << auth_cookie, ws_message_count,
                    waiting_for_ws_thread_to_end, ws_uri, ws, nthreads,
                    calls, pushed, env >>
    /\ UNCHANGED << tr, regens, co, hass >>

\* lines 386-391: ws_thread.join(timeout=5) returns, the thread dead or not
GdJoin ==
    /\ gd.pc = "join"
    /\ ws' = [ws EXCEPT ![gd.ws_thread].abandoned = Alive(gd.ws_thread)]
    /\ gd' = [gd EXCEPT !.pc = "device", !.idx = @ + 1]
    /\ UNCHANGED << auth_cookie, ws_message_count,
                    waiting_for_ws_thread_to_end, ws_uri, nthreads,
                    calls, obs, pushed, env >>
    /\ UNCHANGED << tr, regens, co, hass >>

\* lines 401-416: the second GET /devices
GdList2(x) ==
    /\ gd.pc = "list2"
    /\ LET k == List2Step(x)
           o == [obs EXCEPT !.listReqs = @ + 1, !.fx = Wire(x),
                            !.sent = @ \cup {auth_cookie},
                            !.saw401 = IF Is401(x) THEN "list2" ELSE @] IN
         obs' = IF k = "ok"
                THEN Returned([o EXCEPT !.body2 = x.body,
                                        !.differs = JsonData(x.body) # gd.devices],
                              "ok", GetDataResult(gd.devices, x.body))
                ELSE Returned(o, k, <<>>)
    /\ gd' = IdleFrame
    /\ UNCHANGED << auth_cookie, ws_message_count,
                    waiting_for_ws_thread_to_end, ws_uri, ws, nthreads,
                    calls, pushed, env >>
    /\ UNCHANGED << tr, regens, co, hass >>

\* ------------------------------------------- trigger_regeneration, by step
\* device ids the caller may name
DeviceIds == { r.id : r \in DeviceRecords } \ {NoId}

PostExchanges ==
    {Timeout, ConnErr} \cup { [kind |-> "response", status |-> s] : s \in Statuses }

\* mutant: the POST is sent although the login failed
TriggerEntry_PostAfterFailedLogin(cookie, x) ==
    IF Falsy(cookie)
    THEN LET l == Login(cookie, x) IN
         [login |-> l.kind, cookie |-> l.cookie, lx |-> x, ret |-> "none"]
    ELSE [login |-> "none", cookie |-> cookie, lx |-> NoExchange, ret |-> "none"]

\* mutant: login is called on every entry, token stored or not
TriggerEntry_AlwaysLogin(cookie, x) ==
    LET l == Login(cookie, x) IN
    [login |-> l.kind, cookie |-> l.cookie, lx |-> x,
     ret |-> IF l.kind = "ok" THEN "none" ELSE l.kind]

\* lines 431-432: `if not self.auth_cookie: self.login()`, outside the try
TriggerEntry(cookie, x) ==
    IF Falsy(cookie)
    THEN LET l == Login(cookie, x) IN
         [login |-> l.kind, cookie |-> l.cookie, lx |-> x,
          ret |-> IF l.kind = "ok" THEN "none" ELSE l.kind]
    ELSE [login |-> "none", cookie |-> cookie, lx |-> NoExchange, ret |-> "none"]

\* mutant: no 401 check, the response goes to raise_for_status
PostStep_No401Check(x) ==
    IF x.kind # "response" THEN "CannotConnect"
    ELSE IF RaiseForStatus(x.status) THEN "CannotConnect"
    ELSE "ok"

\* mutant: every HTTP error status is taken for an expired session
PostStep_ErrorIsAuth(x) ==
    IF x.kind # "response" THEN "CannotConnect"
    ELSE IF RaiseForStatus(x.status) THEN "InvalidAuth"
    ELSE "ok"

\* lines 434-453: how the regenerate POST ends
PostStep(x) ==
    IF x.kind # "response" THEN "CannotConnect"
    ELSE IF x.status = 401 THEN "InvalidAuth"
    ELSE IF RaiseForStatus(x.status) THEN "CannotConnect"
    ELSE "ok"

\* trigger_regeneration(device_id) is entered: login when no cookie is stored
TriggerStart(id, x) ==
    /\ gd.pc = "idle" /\ tr.pc = "idle" /\ co.pc = "idle"
    /\ regens < env.regens
    /\ regens' = regens + 1
    /\ LET e == TriggerEntry(auth_cookie, x) IN
         /\ auth_cookie' = e.cookie
         /\ obs' = [NoObs EXCEPT !.op = "trigger", !.login = e.login,
                                 !.hadCookie = ~Falsy(auth_cookie),
                                 !.ret = e.ret, !.lx = e.lx,
                                 !.loginReqs = IF e.login = "none" THEN 0 ELSE 1,
                                 !.after401 = obs.op = "trigger" /\ Is401(obs.fx)]
         /\ tr' = IF e.ret = "none" THEN [pc |-> "post", device |-> id] ELSE TrIdle
    /\ UNCHANGED << ws_message_count, waiting_for_ws_thread_to_end, ws_uri,
                    gd, ws, nthreads, calls, pushed, env, co >>

\* trigger_regeneration(device_id) called on the client directly
TriggerCall(id, x) ==
    /\ hass.svc.pc = "idle"
    /\ TriggerStart(id, x)
    /\ UNCHANGED hass

\* the POST /devices/{id}/regenerate and the return
TrPost(x) ==
    /\ tr.pc = "post"
    /\ LET k == PostStep(x) IN
         /\ auth_cookie' = IF k = "InvalidAuth" THEN None ELSE auth_cookie
         /\ obs' = Returned([obs EXCEPT !.posts = @ + 1, !.fx = Wire(x)], k, <<>>)
    /\ tr' = TrIdle
    /\ UNCHANGED << ws_message_count, waiting_for_ws_thread_to_end, ws_uri,
                    gd, ws, nthreads, calls, pushed, env, regens, co, hass >>

\* trigger_regeneration(device_id) is entered on another executor thread
\* while get_data runs on the same client; obs keeps following get_data
TriggerDuring(id, x) ==
    /\ gd.pc # "idle" /\ tr.pc = "idle"
    /\ regens < env.regens
    /\ regens' = regens + 1
    /\ LET e == TriggerEntry(auth_cookie, x) IN
         /\ auth_cookie' = e.cookie
         /\ tr' = IF e.ret = "none" THEN [pc |-> "post", device |-> id] ELSE TrIdle
    /\ UNCHANGED << ws_message_count, waiting_for_ws_thread_to_end, ws_uri,
                    gd, ws, nthreads, calls, pushed, env, obs, co, hass >>

\* the POST of that call and its return
TrPostDuring(x) ==
    /\ tr.pc = "post"
    /\ auth_cookie' = IF PostStep(x) = "InvalidAuth" THEN None ELSE auth_cookie
    /\ tr' = TrIdle
    /\ UNCHANGED << ws_message_count, waiting_for_ws_thread_to_end, ws_uri,
                    gd, ws, nthreads, calls, pushed, env, obs, regens, co, hass >>

\* ---------------------------------- coordinator: _async_update_data, by step
\* mutant: a connection failure is swallowed and the update returns no devices
AsyncUpdateData_SwallowsCannotConnect(ret) ==
    IF ret = "ok" THEN "data"
    ELSE IF ret = "InvalidAuth" THEN "UpdateFailed"
    ELSE IF ret = "CannotConnect" THEN "data"
    ELSE ret

\* coordinator.py lines 109-115: what the update ends with, by what get_data
\* ended with
AsyncUpdateData(ret) ==
    IF ret = "ok" THEN "data"
    ELSE IF ret = "InvalidAuth" THEN "UpdateFailed"
    ELSE IF ret = "CannotConnect" THEN "UpdateFailed"
    ELSE ret

\* line 111: the update hands api.get_data to the executor
UpdateBegin(x) ==
    /\ co.pc = "idle"
    /\ GetDataStart(x)
    /\ co' = [CoIdle EXCEPT !.pc = "fetching", !.n = co.n + 1, !.fetches = 1]

\* lines 111-115: get_data has returned or raised, the update ends
UpdateEnd ==
    /\ co.pc = "fetching"
    /\ gd.pc = "idle"
    /\ LET out == AsyncUpdateData(obs.ret) IN
         co' = [co EXCEPT !.pc = "idle", !.got = obs.ret, !.out = out,
                          !.data = IF out = "data" THEN obs.result ELSE <<>>]
    /\ UNCHANGED << auth_cookie, ws_message_count, waiting_for_ws_thread_to_end,
                    ws_uri, gd, ws, nthreads, calls, pushed, env, obs, tr,
                    regens, hass >>

\* --------------------------------------------- __init__.py: the entry setup
\* outcomes of the client's get_data during the first refresh
FetchKinds == {"ok", "InvalidAuth", "CannotConnect"}

\* what awaiting hass.config_entries.async_forward_entry_setups does: it
\* returns None, returns False (as the tests' stand-in does), or raises
FwdKinds == {"ok", "False", "raise"}

\* mutant: the coordinator is not stored in hass.data
SetupEntryOutcome_NoStore(got, fwd) ==
    IF AsyncUpdateData(got) # "data"
    THEN [ret |-> "ConfigEntryNotReady", stored |-> FALSE, forwards |-> 0]
    ELSE IF fwd = "raise"
    THEN [ret |-> "Exception", stored |-> FALSE, forwards |-> 1]
    ELSE [ret |-> "True", stored |-> FALSE, forwards |-> 1]

\* __init__.py lines 87-103: how async_setup_entry ends, by what the first
\* refresh fetched and by what forwarding to the platforms did.  A first
\* refresh whose update failed raises ConfigEntryNotReady; the value the
\* forwarding returns is not looked at.
SetupEntryOutcome(got, fwd) ==
    IF AsyncUpdateData(got) # "data"
    THEN [ret |-> "ConfigEntryNotReady", stored |-> FALSE, forwards |-> 0]
    ELSE IF fwd = "raise"
    THEN [ret |-> "Exception", stored |-> TRUE, forwards |-> 1]
    ELSE [ret |-> "True", stored |-> TRUE, forwards |-> 1]

\* __init__.py lines 67-70: async_setup
AsyncSetup ==
    /\ ~hass.domain
    /\ hass' = [hass EXCEPT !.domain = TRUE,
                            !.last = [NoLast EXCEPT !.op = "async_setup",
                                                    !.ret = "True"]]
    /\ UNCHANGED << auth_cookie, ws_message_count, waiting_for_ws_thread_to_end,
                    ws_uri, gd, ws, nthreads, calls, pushed, env, obs, tr,
                    regens, co >>

\* __init__.py lines 73-103: async_setup_entry(hass, entry)
AsyncSetupEntry(e, got, fwd) ==
    /\ hass.ncoord < MaxSetups
    /\ LET o == SetupEntryOutcome(got, fwd)
           c == hass.ncoord + 1 IN
         hass' = [hass EXCEPT
                    !.domain = TRUE,
                    !.ncoord = c,
                    !.reg[e] = IF o.stored THEN c ELSE @,
                    !.fwd[e] = @ + o.forwards,
                    !.service = @ \/ o.ret = "True",
                    !.last = [op |-> "async_setup_entry", entry |-> e,
                              ret |-> o.ret, coord |-> c,
                              hadDomain |-> hass.domain,
                              fwdBefore |-> hass.fwd[e], got |-> got,
                              fwd |-> IF o.forwards = 1 THEN fwd ELSE "none",
                              unloadOk |-> FALSE]]
    /\ UNCHANGED << auth_cookie, ws_message_count, waiting_for_ws_thread_to_end,
                    ws_uri, gd, ws, nthreads, calls, pushed, env, obs, tr,
                    regens, co >>

\* mutant: the coordinator is popped whether or not the platforms unloaded
UnloadEntryOutcome_PopsAlways(unloadOk, present) ==
    IF ~present THEN [ret |-> IF unloadOk THEN "KeyError" ELSE "False",
                      popped |-> FALSE]
    ELSE [ret |-> IF unloadOk THEN "True" ELSE "False", popped |-> TRUE]

\* __init__.py lines 118-125: how async_unload_entry ends, by whether the
\* platforms unloaded and whether hass.data[DOMAIN] holds the entry's id;
\* dict.pop of a missing key raises KeyError
UnloadEntryOutcome(unloadOk, present) ==
    IF ~unloadOk THEN [ret |-> "False", popped |-> FALSE]
    ELSE IF ~present THEN [ret |-> "KeyError", popped |-> FALSE]
    ELSE [ret |-> "True", popped |-> TRUE]

\* __init__.py lines 106-125: async_unload_entry(hass, entry)
AsyncUnloadEntry(e, unloadOk) ==
    /\ LET o == UnloadEntryOutcome(unloadOk, hass.domain /\ hass.reg[e] # 0) IN
         hass' = [hass EXCEPT
                    !.reg[e] = IF o.popped THEN 0 ELSE @,
                    !.last = [op |-> "async_unload_entry", entry |-> e,
                              ret |-> o.ret, coord |-> hass.reg[e],
                              hadDomain |-> hass.domain,
                              fwdBefore |-> hass.fwd[e], got |-> "none",
                              fwd |-> "none", unloadOk |-> unloadOk]]
    /\ UNCHANGED << auth_cookie, ws_message_count, waiting_for_ws_thread_to_end,
                    ws_uri, gd, ws, nthreads, calls, pushed, env, obs, tr,
                    regens, co >>

\* ------------------------------------------- sensor.py: native_value
\* `pat in name` on Python strings
Contains(name, pat) ==
    \E i \in 1..(Len(name) - Len(pat) + 1) :
        SubSeq(name, i, i + Len(pat) - 1) = pat

\* sensor.py lines 196-203, 499-506 and 672-676: the device class of the
\* sensor of a property, from SENSOR_DESCRIPTIONS; "other" stands for the
\* classes and the None that neither native_value nor the host looks at
DeviceClass(property) ==
    IF property = "tlc_avg_temp_tenths_c" THEN "temperature"
    ELSE IF property = "current_time_secs" THEN "timestamp"
    ELSE "other"

\* sensor.py lines 698-705: the device classes whose "unknown" becomes None
UnknownIsNone ==
    {"energy", "power", "current", "voltage", "pressure", "temperature"}

\* isinstance(value, (int, float)); bool is a subclass of int
IsNumber(v) == v.kind \in {"int", "float", "bool"}

\* value / k
Div(v, k) == PyFloat(v.num, v.den * k)

\* mutant: the salt totals are not scaled
NativeValue_SaltUnscaled(property, value) ==
    IF value = PyStr("unknown") /\ DeviceClass(property) \in UnknownIsNone
    THEN PyNone
    ELSE IF IsNumber(value) /\ Contains(property, "_tenths") THEN Div(value, 10)
    ELSE IF IsNumber(value) /\ property = "capacity_remaining_percent"
    THEN Div(value, 10)
    ELSE value

\* sensor.py lines 695-724: native_value of the sensor of a property whose
\* device is in coordinator.data, by the property's raw value
NativeValue(property, value) ==
    IF value = PyStr("unknown") /\ DeviceClass(property) \in UnknownIsNone
    THEN PyNone
    ELSE IF IsNumber(value) /\ Contains(property, "_tenths") THEN Div(value, 10)
    ELSE IF IsNumber(value) /\ property = "capacity_remaining_percent"
    THEN Div(value, 10)
    ELSE IF IsNumber(value)
            /\ property \in {"avg_salt_per_regen_lbs", "total_salt_use_lbs"}
    THEN Div(value, 1000)
    ELSE value

\* sensor.py lines 693-725: native_value by what coordinator.data holds: no
\* device of the sensor's id ends the loop and returns None,
\* device["properties"][name] without the name raises KeyError
SensorLookup(missing, property, value) ==
    IF missing = "device" THEN PyNone
    ELSE IF missing = "property" THEN PyRaise("KeyError")
    ELSE NativeValue(property, value)

\* sensor.py lines 690-725: the host reads native_value of a sensor, the
\* coordinator's data holding raw as the property's value
SensorRead(property, raw) ==
    /\ hass' = [hass EXCEPT !.sensor =
                   [property |-> property, raw |-> raw,
                    value |-> SensorLookup("none", property, raw),
                    read |-> TRUE, missing |-> "none"]]
    /\ UNCHANGED << auth_cookie, ws_message_count, waiting_for_ws_thread_to_end,
                    ws_uri, gd, ws, nthreads, calls, pushed, env, obs, tr,
                    regens, co >>

\* sensor.py lines 690-725: the host reads native_value of a sensor whose
\* device or property a later refresh has dropped from coordinator.data
SensorReadMissing(property, missing) ==
    /\ missing # "none"
    /\ hass' = [hass EXCEPT !.sensor =
                   [property |-> property, raw |-> PyNone,
                    value |-> SensorLookup(missing, property, PyNone),
                    read |-> TRUE, missing |-> missing]]
    /\ UNCHANGED << auth_cookie, ws_message_count, waiting_for_ws_thread_to_end,
                    ws_uri, gd, ws, nthreads, calls, pushed, env, obs, tr,
                    regens, co >>

\* ------------------------------------ config_flow.py: the user step
ShowForm(errors) ==
    [type |-> "form", errors |-> errors, title |-> "", data |-> NoInput]

\* mutant: every login failure is reported as invalid_auth
StepUser_OneError(input, login, configured) ==
    IF ~input.given THEN ShowForm("none")
    ELSE IF input.email = "" \/ input.password = "" THEN ShowForm("invalid_auth")
    ELSE IF login = "InvalidAuth" THEN ShowForm("invalid_auth")
    ELSE IF login = "CannotConnect" THEN ShowForm("invalid_auth")
    ELSE IF configured THEN ShowForm("unknown")
    ELSE [type |-> "create_entry", errors |-> "none", title |-> input.email,
          data |-> input]

\* config_flow.py lines 99-147: what async_step_user returns, by how
\* api.login ended and by whether the email is the unique id of an entry
\* (then _abort_if_unique_id_configured raises AbortFlow, an Exception,
\* inside the outer try)
StepUser(input, login, configured) ==
    IF ~input.given THEN ShowForm("none")
    ELSE IF input.email = "" \/ input.password = "" THEN ShowForm("invalid_auth")
    ELSE IF login = "InvalidAuth" THEN ShowForm("invalid_auth")
    ELSE IF login = "CannotConnect" THEN ShowForm("cannot_connect")
    ELSE IF configured THEN ShowForm("unknown")
    ELSE [type |-> "create_entry", errors |-> "none", title |-> input.email,
          data |-> input]

\* mutant: the login is attempted whatever was submitted
AsksLogin_Always(input) == input.given

\* config_flow.py lines 100-117: api.login is reached when a form was
\* submitted with both fields filled in
AsksLogin(input) == input.given /\ input.email # "" /\ input.password # ""

\* config_flow.py lines 85-147: async_step_user(user_input); login is called
\* on a client made for this step
AsyncStepUser(input, x) ==
    /\ hass.flow.n < MaxSteps
    /\ LET asks == AsksLogin(input)
           login == IF asks THEN Login(None, x).kind ELSE "none"
           r == StepUser(input, login, input.email \in hass.flow.entries) IN
         hass' = [hass EXCEPT !.flow =
                    [n |-> hass.flow.n + 1, input |-> input, login |-> login,
                     lx |-> IF asks THEN Wire(x) ELSE NoExchange,
                     type |-> r.type, errors |-> r.errors, title |-> r.title,
                     data |-> r.data,
                     entries |-> IF r.type = "create_entry"
                                 THEN hass.flow.entries \cup {r.title}
                                 ELSE hass.flow.entries,
                     before |-> hass.flow.entries]]
    /\ UNCHANGED << auth_cookie, ws_message_count, waiting_for_ws_thread_to_end,
                    ws_uri, gd, ws, nthreads, calls, pushed, env, obs, tr,
                    regens, co >>

\* ------------------------------- services.py: the trigger_regeneration call
\* what dr.async_entries_for_device_id and the first entry's config_entry_id
\* give for the device id of the call: no entry, an entry without a config
\* entry id, or the id of a config entry
Lookups == {"none", "noentry"} \cup Entries

\* mutant: a device entry without config entry id is taken for the first entry
ServiceResolve_NoEntryCheck(found, reg) ==
    IF found = "none" THEN [ret |-> "ValueError", call |-> FALSE]
    ELSE IF found = "noentry" THEN [ret |-> "none", call |-> TRUE]
    ELSE IF reg[found] = 0 THEN [ret |-> "KeyError", call |-> FALSE]
    ELSE [ret |-> "none", call |-> TRUE]

\* services.py lines 64-77: from the device id to the coordinator
ServiceResolve(found, reg) ==
    IF found = "none" THEN [ret |-> "ValueError", call |-> FALSE]
    ELSE IF found = "noentry" THEN [ret |-> "ValueError", call |-> FALSE]
    ELSE IF reg[found] = 0 THEN [ret |-> "KeyError", call |-> FALSE]
    ELSE [ret |-> "none", call |-> TRUE]

\* mutant: only CannotConnect is caught
ServiceOutcome_InvalidAuthEscapes(ret) ==
    IF ret = "CannotConnect" THEN "ValueError"
    ELSE IF ret = "ok" THEN "None"
    ELSE ret

\* services.py lines 79-85: how the handler ends, by how the client's
\* trigger_regeneration ended
ServiceOutcome(ret) ==
    IF ret \in {"CannotConnect", "InvalidAuth"} THEN "ValueError"
    ELSE IF ret = "ok" THEN "None"
    ELSE ret

\* services.py lines 62-83: the handler is called, resolves the device and
\* hands the client's trigger_regeneration to the executor
ServiceCall(id, found, x) ==
    /\ hass.service
    /\ hass.svc.pc = "idle"
    /\ hass.svc.n < MaxServices
    /\ gd.pc = "idle" /\ tr.pc = "idle" /\ co.pc = "idle"
    /\ regens < env.regens
    /\ LET r == ServiceResolve(found, hass.reg) IN
         /\ hass' = [hass EXCEPT !.svc =
                        [pc |-> IF r.call THEN "calling" ELSE "idle",
                         device |-> id, found |-> found, ret |-> r.ret,
                         regens0 |-> regens, n |-> hass.svc.n + 1]]
         /\ IF r.call
            THEN TriggerStart(id, x)
            ELSE UNCHANGED << auth_cookie, ws_message_count,
                              waiting_for_ws_thread_to_end, ws_uri, gd, ws,
                              nthreads, calls, pushed, env, obs, tr, regens, co >>

\* services.py lines 79-85: the client's call has returned or raised
ServiceEnd ==
    /\ hass.svc.pc = "calling"
    /\ tr.pc = "idle"
    /\ hass' = [hass EXCEPT !.svc.pc = "idle",
                            !.svc.ret = ServiceOutcome(obs.ret)]
    /\ UNCHANGED << auth_cookie, ws_message_count, waiting_for_ws_thread_to_end,
                    ws_uri, gd, ws, nthreads, calls, pushed, env, obs, tr,
                    regens, co >>

\* ------------------------------------------------------ _start_ws, by step
\* mutant: a malformed message closes the connection
OnMessageCloses_MalformedCloses(count, dbg, malformed) ==
    malformed \/ count >= Threshold

\* lines 224-238: does this message reach `ws.close()`
OnMessageCloses(count, dbg, malformed) ==
    IF dbg /\ malformed THEN FALSE      \* json.loads raised, the check is skipped
    ELSE count >= Threshold

\* mutant: the flag is set after run_forever, not in a finally block
FinallyFlag_NoFinally(cause, flag) == IF cause = "exception" THEN flag ELSE 0

\* line 289: the value the finally block leaves in the flag
FinallyFlag(cause, flag) == 0

\* the thread is over: its frame is gone
Dead == [NoWorker EXCEPT !.pc = "dead"]

\* lines 269-281: counter reset, WebSocketApp created, run_forever entered;
\* when the creation raises, lines 283-289 end the thread
WsBegin(w, raises) ==
    /\ ws[w].pc = "new"
    /\ ws_message_count' = 0
    /\ IF raises
       THEN /\ ws' = [ws EXCEPT ![w] = Dead]
            /\ waiting_for_ws_thread_to_end' =
                   FinallyFlag("exception", waiting_for_ws_thread_to_end)
            /\ obs' = IF gd.pc = "wait" THEN Released(obs, w, "exception") ELSE obs
       ELSE /\ ws' = [ws EXCEPT ![w].pc = "open"]
            /\ UNCHANGED << waiting_for_ws_thread_to_end, obs >>
    /\ UNCHANGED << auth_cookie, ws_uri, gd, nthreads, calls, pushed, env >>
    /\ UNCHANGED << tr, regens, co, hass >>

\* lines 217-238: on_message, dbg being _LOGGER.isEnabledFor(logging.DEBUG)
WsMessage(w, dbg, malformed) ==
    /\ ws[w].pc = "open"
    /\ pushed < env.msgs
    /\ pushed' = pushed + 1
    /\ ws_message_count' = ws_message_count + 1
    /\ LET closes == OnMessageCloses(ws_message_count', dbg, malformed) IN
         ws' = [ws EXCEPT ![w].recv = @ + 1,
                          ![w].bad = IF malformed THEN "last"
                                     ELSE IF @ = "none" THEN "none" ELSE "earlier",
                          ![w].closeCalls = IF closes THEN @ + 1 ELSE @,
                          ![w].pc = IF closes THEN "closing" ELSE @]
    /\ UNCHANGED << auth_cookie, waiting_for_ws_thread_to_end, ws_uri, gd,
                    nthreads, calls, env, obs >>
    /\ UNCHANGED << tr, regens, co, hass >>

\* why run_forever ends without ws.close(): close by the peer (on_close),
\* transport error (on_error), or an exception it raises
EndCauses == {"remote", "error", "exception"}

\* lines 281-289: run_forever is over, the except and finally blocks run and
\* the thread ends
WsFinish(w, cause) ==
    /\ \/ ws[w].pc = "open" /\ cause \in EndCauses
       \/ ws[w].pc = "closing" /\ cause = "threshold"
    /\ waiting_for_ws_thread_to_end' =
           FinallyFlag(cause, waiting_for_ws_thread_to_end)
    /\ ws' = [ws EXCEPT ![w] = Dead]
    /\ obs' = IF gd.pc = "wait" THEN Released(obs, w, cause) ELSE obs
    /\ UNCHANGED << auth_cookie, ws_message_count, ws_uri, gd, nthreads, calls,
                    pushed, env >>
    /\ UNCHANGED << tr, regens, co, hass >>

\* ------------------------------------------------------------ specification
Orchestrator ==
    \/ \E x \in ListExchanges(env.devs) : GdList1(x)
    \/ GdLoopEnd
    \/ GdSkipNoId
    \/ /\ gd.pc = "device" /\ gd.idx <= Len(gd.devices)
       /\ \E x \in LiveExchanges(gd.devices[gd.idx].id) : GdLive(x)
    \/ GdWait
    \/ GdJoin
    \/ \E x \in ListExchanges(env.devs) : GdList2(x)

Next ==
    \/ \E x \in LoginExchanges : LoginCall(x)
    \/ \E x \in LoginExchanges : GetDataCall(x)
    \/ Orchestrator
    \/ \E w \in Workers, raises \in BOOLEAN : WsBegin(w, raises)
    \/ \E w \in Workers, dbg \in BOOLEAN, malformed \in BOOLEAN :
           WsMessage(w, dbg, malformed)
    \/ \E w \in Workers, cause \in EndCauses \cup {"threshold"} : WsFinish(w, cause)

Spec == Init /\ [][Next]_vars

\* the orchestrator thread keeps running: every blocking call it makes
\* (requests with timeout=10, time.sleep, join(timeout=5)) returns
LiveSpec == Spec /\ WF_vars(Orchestrator)

\* one Live-Refresh session with enough messages to pass the threshold
SessionSpec == SessionInit /\ [][Next]_vars

\* the three public operations of the client, one call at a time
ApiNext ==
    \/ Next
    \/ \E id \in DeviceIds, x \in LoginExchanges : TriggerCall(id, x)
    \/ \E x \in PostExchanges : TrPost(x)

ApiSpec == ApiInit /\ [][ApiNext]_vars

Worker ==
    \/ \E w \in Workers, raises \in BOOLEAN : WsBegin(w, raises)
    \/ \E w \in Workers, dbg \in BOOLEAN, malformed \in BOOLEAN :
           WsMessage(w, dbg, malformed)
    \/ \E w \in Workers, cause \in EndCauses \cup {"threshold"} : WsFinish(w, cause)

\* one get_data call and one trigger_regeneration call on the same client,
\* each on its own executor thread
RaceNext ==
    \/ \E x \in LoginExchanges : GetDataCall(x)
    \/ Orchestrator
    \/ Worker
    \/ \E id \in DeviceIds, x \in LoginExchanges : TriggerDuring(id, x)
    \/ \E x \in PostExchanges : TrPostDuring(x)

RaceSpec == RaceInit /\ [][RaceNext]_vars

\* the coordinator's updates of one config entry, one at a time
CoordNext ==
    \/ \E x \in LoginExchanges : UpdateBegin(x)
    \/ UpdateEnd
    \/ Orchestrator
    \/ Worker

CoordSpec == CoordInit /\ [][CoordNext]_vars

\* the host sets entries up and unloads them, the clients out of the picture
HostNext ==
    \/ AsyncSetup
    \/ \E e \in Entries, got \in FetchKinds, fwd \in FwdKinds :
           AsyncSetupEntry(e, got, fwd)
    \/ \E e \in Entries, unloadOk \in BOOLEAN : AsyncUnloadEntry(e, unloadOk)

HostSpec == HostInit /\ [][HostNext]_vars

\* service calls against the client of the entry that was set up; the entry
\* may be unloaded in between
ServiceNext ==
    \/ \E id \in DeviceIds, found \in Lookups, x \in LoginExchanges :
           ServiceCall(id, found, x)
    \/ \E x \in PostExchanges : TrPost(x)
    \/ ServiceEnd
    \/ \E e \in Entries, unloadOk \in BOOLEAN :
           hass.svc.pc = "idle" /\ AsyncUnloadEntry(e, unloadOk)

ServiceSpec == ServiceInit /\ [][ServiceNext]_vars

\* the configuration flow, step by step
FlowNext == \E input \in UserInputs, x \in LoginExchanges : AsyncStepUser(input, x)

FlowSpec == HostInit /\ [][FlowNext]_vars

\* the sensors read over every property and raw value
SensorNext ==
    \/ \E property \in PropertyNames, raw \in RawValues : SensorRead(property, raw)
    \/ \E property \in PropertyNames, missing \in Missings :
           SensorReadMissing(property, missing)

SensorSpec == HostInit /\ [][SensorNext]_vars

TypeOK ==
    /\ auth_cookie \in CookieValues
    /\ ws_message_count \in 0..env.msgs
    /\ waiting_for_ws_thread_to_end \in {0, 1}
    /\ gd.pc \in {"idle", "list1", "device", "wait", "join", "list2"}
    /\ gd.polls \in 0..WaitPolls
    /\ nthreads \in 0..env.threads
    /\ calls \in 0..env.calls
    /\ pushed \in 0..env.msgs

\* ---------------------------------------------------------------- claims
GetDataDone == obs.op = "get_data" /\ gd.pc = "idle"

\* C1: a successful get_data returns exactly the data list of the second
\* device-list response (the empty list when the body has no data key), with
\* every device record, value and timestamp as the server sent them.
C1_ReturnsSecondList ==
    (GetDataDone /\ obs.ret = "ok") =>
        /\ obs.listReqs = 2
        /\ obs.body2.hasData => obs.result = obs.body2.data
        /\ ~obs.body2.hasData => obs.result = <<>>

\* C1 witness: a successful call whose two list responses differed and whose
\* result holds two different devices.
C1_Witness ==
    /\ GetDataDone /\ obs.ret = "ok" /\ obs.differs
    /\ Len(obs.result) = 2 /\ obs.result[1] # obs.result[2]

\* C2: get_data entered with no stored token logs in before any device
\* request; when that login fails get_data fails with the kind login raised
\* and no device-list or live request is made.
C2_LoginFirst ==
    (obs.op = "get_data" /\ ~obs.hadCookie) =>
        /\ obs.login # "none"
        /\ obs.login # "ok" =>
              /\ obs.ret = obs.login
              /\ gd.pc = "idle"
              /\ obs.listReqs = 0 /\ obs.liveReqs = 0

\* C2 witness: a call without token whose login was refused with 401.
C2_Witness ==
    /\ obs.op = "get_data" /\ ~obs.hadCookie
    /\ obs.login = "InvalidAuth" /\ obs.ret = "InvalidAuth"

\* C3: a 401 at any step of get_data (first list, live descriptor, second
\* list) clears the stored token and makes get_data fail with InvalidAuth.
C3_Any401IsInvalidAuth ==
    (GetDataDone /\ obs.saw401 # "none") =>
        (auth_cookie = None /\ obs.ret = "InvalidAuth")

\* C4: once a live-descriptor step has failed (no descriptor, or a request
\* exception) get_data does not end before the second list request: the loop
\* runs to the end of the list and the call returns the second list unless
\* that request itself fails.
C4_LiveFailureSkipped ==
    (obs.op = "get_data" /\ obs.liveFails > 0) =>
        /\ gd.pc = "list2" => gd.idx = Len(gd.devices) + 1
        /\ gd.pc = "idle" =>
              /\ obs.listReqs = 2
              /\ obs.ret \in {"ok", "CannotConnect"}
              /\ (obs.ret = "ok" /\ obs.body2.hasData) => obs.result = obs.body2.data

\* C4 witness: a device was skipped, a later device got its worker, and the
\* call returned a non-empty second list.
C4_Witness ==
    /\ GetDataDone /\ obs.ret = "ok" /\ obs.liveFails > 0 /\ obs.afterSkip
    /\ obs.result # <<>>

C6_FlagDoneAtExit ==
    [][\A w \in Workers :
          (ws[w].pc # "dead" /\ ws'[w].pc = "dead") =>
              waiting_for_ws_thread_to_end' = 0]_vars

\* C6 witness: the worker of the current device received messages, then ended
\* by an exception, and the orchestrator, still in its wait loop, finds the
\* flag done.
C6_Witness ==
    \E w \in Workers :
        /\ ws[w].pc = "dead" /\ obs.setter = w /\ obs.cause = "exception"
        /\ pushed > 0
        /\ gd.pc = "wait" /\ gd.ws_thread = w
        /\ waiting_for_ws_thread_to_end = 0

\* C7: in a session, ws.close() has not been called before the 17th message
\* and has been called exactly once when 17 messages have been received.
C7_CloseExactlyAtThreshold ==
    \A w \in Workers :
        /\ ws[w].recv < Threshold => ws[w].closeCalls = 0
        /\ ws[w].recv = Threshold => ws[w].closeCalls = 1

\* C8 (as stated): at most one worker thread is alive at any moment.
C8_AtMostOneAlive == Cardinality({w \in Workers : Alive(w)}) <= 1

\* C8 (amended): every alive worker that get_data has not yet given up on
\* (its wait loop and join(timeout=5) have not both ended) is the worker of
\* the device being processed; a later worker is never started before that.
C8_OneWorkerAwaited ==
    \A w \in Workers :
        (Alive(w) /\ ~ws[w].abandoned) =>
            (gd.pc \in {"wait", "join"} /\ gd.ws_thread = w)

\* C8 witness: two workers alive at once, the earlier one given up on.
C8_Witness ==
    \E v, w \in Workers :
        /\ v # w /\ Alive(v) /\ Alive(w)
        /\ ws[v].abandoned /\ ~ws[w].abandoned

\* C9: the count that decides when an open session closes is the number of
\* messages that session itself received: no other session's messages or
\* counter reset change it.
C9_OwnCounter ==
    \A w \in Workers : ws[w].pc = "open" => ws_message_count = ws[w].recv

\* C10: when the wait loop of the current device finds the flag done, the
\* flag was set by the current session's worker and by no other.
C10_DoneByCurrentSession ==
    (gd.pc = "wait" /\ waiting_for_ws_thread_to_end = 0) =>
        obs.setter = gd.ws_thread

\* C11: a login request answered with HTTP 401 makes login fail with
\* InvalidAuth, never with CannotConnect, also when get_data or
\* trigger_regeneration made the login.
C11_Login401IsInvalidAuth ==
    Is401(obs.lx) =>
        /\ obs.login = "InvalidAuth"
        /\ obs.ret = "InvalidAuth"

\* C11 witness: login() was called and answered with 401.
C11_Witness ==
    obs.op = "login" /\ Is401(obs.lx) /\ obs.ret = "InvalidAuth"

\* the login request was answered 429 or 5xx, timed out, or could not connect
Unreachable(x) ==
    \/ x.kind \in {"timeout", "connerr"}
    \/ x.kind = "response" /\ (x.status = 429 \/ x.status >= 500)

\* C12: a login request that is answered with 429 or a status of 500 or
\* above, times out, or cannot connect makes login fail with CannotConnect,
\* never with InvalidAuth, and a login call sends exactly one login request.
C12_LoginUnreachable ==
    /\ obs.op = "login" => obs.loginReqs = 1
    /\ obs.loginReqs <= 1
    /\ Unreachable(obs.lx) =>
          /\ obs.login = "CannotConnect"
          /\ obs.ret = "CannotConnect"

\* C12 witness: login() timed out and failed with CannotConnect after one
\* request.
C12_Witness ==
    /\ obs.op = "login" /\ obs.lx = Timeout
    /\ obs.ret = "CannotConnect" /\ obs.loginReqs = 1

\* the login request was answered 2xx without the session cookie
NoCookie2xx(x) ==
    x.kind = "response" /\ ~RaiseForStatus(x.status) /\ Falsy(x.cookie)

\* C13: a 2xx login response without the session cookie makes login fail with
\* CannotConnect, not succeed, and leaves no token stored.
C13_NoCookieIsUnreachable ==
    NoCookie2xx(obs.lx) =>
        /\ obs.login = "CannotConnect"
        /\ obs.ret = "CannotConnect"
        /\ auth_cookie = None

\* C13 witness: login() was called with a token stored, got 2xx without
\* cookie, failed, and no token is stored any more.
C13_Witness ==
    /\ obs.op = "login" /\ obs.hadCookie /\ NoCookie2xx(obs.lx)
    /\ obs.ret = "CannotConnect" /\ auth_cookie = None

\* this step stored the token of a successful login response
TokenStored ==
    /\ obs'.login = "ok" /\ obs'.loginReqs = 1
    /\ auth_cookie' = obs'.lx.cookie /\ auth_cookie' \in Tokens

\* this step cleared the token on a 401 answer
TokenCleared401 == auth_cookie' = None /\ Is401(obs'.fx)

\* this step is a login() call that got 2xx without cookie and left no token
TokenClearedNoCookie ==
    auth_cookie' = None /\ obs'.op = "login" /\ NoCookie2xx(obs'.lx)

\* a successful login() leaves the token of its response stored, and a
\* get_data or trigger_regeneration call entered with a token stored makes no
\* login request
TokenReused ==
    /\ (obs'.op = "login" /\ obs'.ret = "ok") => TokenStored
    /\ (obs'.op \in {"get_data", "trigger"} /\ obs'.hadCookie) =>
           (obs'.loginReqs = 0 /\ obs'.login = "none")

\* C14 (as stated): after a successful login the stored token is the one the
\* response carried, later get_data and trigger_regeneration calls make no
\* login request while a token is stored, and a stored token goes away only
\* when a 401 clears it (or a new successful login replaces it).
C14_TokenKeptUntil401 ==
    [][/\ TokenReused
       /\ (auth_cookie \in Tokens /\ auth_cookie' # auth_cookie) =>
              (TokenStored \/ TokenCleared401)]_vars

\* C14 (amended): as above, but a stored token also goes away when a later
\* login() call gets a 2xx response without the session cookie.
C14_TokenKeptUntilCleared ==
    [][/\ TokenReused
       /\ (auth_cookie \in Tokens /\ auth_cookie' # auth_cookie) =>
              (TokenStored \/ TokenCleared401 \/ TokenClearedNoCookie)]_vars

\* C14 witness: trigger_regeneration was entered with a token stored, made no
\* login request, sent its POST and succeeded, the token still stored.
C14_Witness ==
    /\ obs.op = "trigger" /\ obs.hadCookie /\ obs.loginReqs = 0
    /\ obs.posts = 1 /\ obs.ret = "ok" /\ auth_cookie \in Tokens

\* C15: a trigger_regeneration whose POST is answered 401 leaves no token
\* stored and fails with InvalidAuth; the trigger_regeneration call that
\* comes next finds no token and makes one login request before its POST
\* (and no POST when that login fails).
C15_Trigger401ThenLogin ==
    /\ (obs.op = "trigger" /\ Is401(obs.fx)) =>
           (auth_cookie = None /\ obs.ret = "InvalidAuth" /\ tr.pc = "idle")
    /\ (obs.op = "trigger" /\ obs.after401) =>
           /\ ~obs.hadCookie /\ obs.loginReqs = 1
           /\ obs.login = "ok" <=> (tr.pc = "post" \/ obs.posts = 1)

\* C15 witness: the call after a 401 logged in, sent its POST and succeeded.
C15_Witness ==
    /\ obs.op = "trigger" /\ obs.after401 /\ obs.loginReqs = 1
    /\ obs.login = "ok" /\ obs.posts = 1 /\ obs.ret = "ok"

\* C16: a trigger_regeneration call sends at most one regenerate POST,
\* whatever its outcome: exactly one once it has returned after a login that
\* succeeded or was not needed, none when its login failed.
C16_AtMostOnePost ==
    obs.op = "trigger" =>
        /\ obs.posts <= 1
        /\ obs.login \in {"none", "ok"} => (obs.posts = 1 <=> tr.pc = "idle")
        /\ obs.login \notin {"none", "ok"} => (obs.posts = 0 /\ tr.pc = "idle")

\* C16 witness: the POST timed out and the call ended with that one POST.
C16_Witness ==
    /\ obs.op = "trigger" /\ tr.pc = "idle" /\ obs.fx = Wire(Timeout)
    /\ obs.posts = 1 /\ obs.ret = "CannotConnect"

\* the request timed out, could not connect, or got an error status but 401
Failing(x) ==
    \/ x.kind \in {"timeout", "connerr"}
    \/ x.kind = "response" /\ x.status # 401 /\ RaiseForStatus(x.status)

\* C17: when a device-list request of get_data or the regenerate POST ends
\* with a timeout, a connection error or an error status other than 401,
\* the call fails with CannotConnect and the stored token stays as it was.
C17_FailureKeepsToken ==
    [][( /\ \/ gd.pc \in {"list1", "list2"} /\ gd'.pc = "idle"
            \/ tr.pc = "post" /\ tr'.pc = "idle"
         /\ Failing(obs'.fx) ) =>
            (obs'.ret = "CannotConnect" /\ auth_cookie' = auth_cookie)]_vars

\* C17 witness: the second list request of a get_data call got an error
\* status; the call failed with CannotConnect and the token is still stored.
C17_Witness ==
    /\ GetDataDone /\ obs.listReqs = 2 /\ Failing(obs.fx)
    /\ obs.fx.kind = "response"
    /\ obs.ret = "CannotConnect" /\ auth_cookie \in Tokens

UpdateDone == co.pc = "idle" /\ co.out # "none"

\* C18: an update whose get_data failed with InvalidAuth fails with
\* ConfigEntryAuthFailed, not with the UpdateFailed of a connection failure.
C18_AuthFailureIsDistinct ==
    UpdateDone =>
        /\ co.got = "InvalidAuth" => co.out = "ConfigEntryAuthFailed"
        /\ co.got = "CannotConnect" => co.out = "UpdateFailed"

C20_SetupRegistersCoordinator ==
    (hass.last.op = "async_setup_entry" /\ hass.last.ret = "True") =>
        /\ hass.domain
        /\ hass.reg[hass.last.entry] = hass.last.coord
        /\ hass.last.coord = hass.ncoord
        /\ hass.fwd[hass.last.entry] = hass.last.fwdBefore + 1

\* C20 witness: the first setup, made when hass.data had no DOMAIN key, has
\* succeeded.
C20_Witness ==
    /\ hass.last.op = "async_setup_entry" /\ hass.last.ret = "True"
    /\ ~hass.last.hadDomain /\ hass.domain
    /\ hass.reg[hass.last.entry] = 1 /\ hass.fwd[hass.last.entry] = 1

SetupFailed ==
    /\ hass.last.op = "async_setup_entry"
    /\ \/ hass.last.got # "ok"
       \/ hass.last.fwd \in {"False", "raise"}

\* C22: an async_setup_entry whose first refresh or whose forwarding failed
\* returns False.
C22_SetupFailureReturnsFalse ==
    SetupFailed => hass.last.ret = "False"

\* C23: unloading an entry whose coordinator is not in the registry, the
\* platforms having unloaded, returns True.
C23_UnloadUnknownReturnsTrue ==
    (hass.last.op = "async_unload_entry" /\ hass.last.coord = 0
        /\ hass.last.unloadOk) => hass.last.ret = "True"

\* the latest service call has ended
ServiceDone == hass.svc.n > 0 /\ hass.svc.pc = "idle"

\* C24: a service call whose device id has no device-registry entry, or whose
\* entry has no config entry id, ends with ValueError and the client's
\* trigger_regeneration was not called.
C24_UnknownDeviceIsValueError ==
    (hass.svc.n > 0 /\ hass.svc.found \in {"none", "noentry"}) =>
        /\ hass.svc.pc = "idle"
        /\ hass.svc.ret = "ValueError"
        /\ regens = hass.svc.regens0
        /\ tr.pc = "idle"

\* C24 witness: after a call that reached the client, a call for a device
\* whose registry entry has no config entry id has ended.
C24_Witness ==
    /\ ServiceDone /\ hass.svc.found = "noentry" /\ hass.svc.n = 2
    /\ hass.svc.ret = "ValueError" /\ regens = 1

\* C25: a service call whose client call ended with CannotConnect or with
\* InvalidAuth ends with ValueError, the client having been called once.
C25_ClientFailureIsValueError ==
    (ServiceDone /\ hass.svc.found \in Entries
        /\ obs.op = "trigger" /\ obs.ret \in {"CannotConnect", "InvalidAuth"}
        /\ regens > hass.svc.regens0) =>
        /\ hass.svc.ret = "ValueError"
        /\ regens = hass.svc.regens0 + 1

\* C25 witness: the client's POST was answered 401 and the call has ended.
C25_Witness ==
    /\ ServiceDone /\ hass.svc.found \in Entries
    /\ obs.op = "trigger" /\ obs.ret = "InvalidAuth" /\ obs.posts = 1
    /\ hass.svc.ret = "ValueError" /\ regens = hass.svc.regens0 + 1

\* C26: the latest step of the configuration flow created an entry only if
\* its login succeeded, and then the entry is titled with the email and holds
\* the submitted email and password; a login that ended with InvalidAuth
\* gives the form with error invalid_auth, one that ended with CannotConnect
\* the form with error cannot_connect, and neither creates an entry.
C26_EntryOnlyAfterLogin ==
    LET f == hass.flow IN
    /\ (f.type = "create_entry" \/ f.entries # f.before) =>
          /\ f.login = "ok"
          /\ f.type = "create_entry"
          /\ f.title = f.input.email
          /\ f.data = f.input
          /\ f.entries = f.before \cup {f.input.email}
    /\ f.login = "InvalidAuth" =>
          (f.type = "form" /\ f.errors = "invalid_auth" /\ f.entries = f.before)
    /\ f.login = "CannotConnect" =>
          (f.type = "form" /\ f.errors = "cannot_connect" /\ f.entries = f.before)

\* C26 witness: after an entry was created, a step whose login timed out has
\* shown the form again.
C26_Witness ==
    /\ hass.flow.entries # {} /\ hass.flow.login = "CannotConnect"
    /\ hass.flow.lx = Timeout /\ hass.flow.errors = "cannot_connect"

\* r is the number v divided by k
IsQuotient(r, v, k) ==
    /\ IsNumber(r)
    /\ r.num * v.den * k = v.num * r.den

\* the properties reported in tenths, and those reported in thousandths
InTenths(property) ==
    Contains(property, "_tenths") \/ property = "capacity_remaining_percent"

InThousandths(property) ==
    property \in {"avg_salt_per_regen_lbs", "total_salt_use_lbs"}

\* native_value was read with the sensor's device and property in the
\* snapshot
HasRaw == hass.sensor.read /\ hass.sensor.missing = "none"

\* a numeric raw value is scaled as its property requires
ScaledAsNamed ==
    LET r == hass.sensor IN
    (HasRaw /\ IsNumber(r.raw)) =>
        IF InTenths(r.property) THEN IsQuotient(r.value, r.raw, 10)
        ELSE IF InThousandths(r.property) THEN IsQuotient(r.value, r.raw, 1000)
        ELSE r.value = r.raw

\* the raw value "unknown" of a sensor whose device class is one of
\* UnknownIsNone
UnknownOfNumericClass ==
    /\ hass.sensor.raw = PyStr("unknown")
    /\ DeviceClass(hass.sensor.property) \in UnknownIsNone

C28_TimestampIsInstant ==
    (HasRaw /\ hass.sensor.property = "current_time_secs"
        /\ hass.sensor.raw.kind = "int") =>
        IF hass.sensor.raw.num > 0
        THEN hass.sensor.value.kind = "datetime"
                /\ hass.sensor.value.num = hass.sensor.raw.num
        ELSE hass.sensor.value = PyNone

\* the device loop of get_data is running
InLoop == gd.pc \in {"device", "wait", "join"}

\* live descriptors requested so far are those of devices before the current
\* one, and of the current one once its wait or join is on
OneRequestPerDevice ==
    /\ gd.pc = "device" => obs.liveReqs <= gd.idx - 1
    /\ gd.pc \in {"wait", "join"} =>
          (obs.liveReqs <= gd.idx /\ gd.idx <= Len(gd.devices))
    /\ gd.pc = "list2" =>
          (obs.liveReqs <= Len(gd.devices) /\ gd.idx > Len(gd.devices)
             /\ obs.listReqs = 1)

\* one step of get_data keeps the order: a live request is made at the head
\* of the loop only, for the current device; the wait is entered by the step
\* that requested the descriptor and started the worker; the current device
\* changes to the next one only, from the head of the loop (skip) or from the
\* join; the second list request is made after the loop.
StepInOrder ==
    /\ obs'.liveReqs > obs.liveReqs =>
          /\ gd.pc = "device" /\ gd.idx <= Len(gd.devices)
          /\ obs'.liveReqs = obs.liveReqs + 1
    /\ (gd'.pc = "wait" /\ gd.pc # "wait") =>
          /\ obs'.liveReqs = obs.liveReqs + 1
          /\ nthreads' = nthreads + 1 /\ gd'.ws_thread = nthreads'
          /\ gd'.idx = gd.idx
    /\ (InLoop /\ gd'.pc # "idle" /\ gd'.idx # gd.idx) =>
          /\ gd'.idx = gd.idx + 1 /\ gd'.devices = gd.devices
          /\ gd.pc \in {"device", "join"} /\ gd'.pc = "device"
    /\ (InLoop /\ gd'.pc # "idle") => gd'.devices = gd.devices
    /\ (obs'.listReqs > obs.listReqs /\ obs.listReqs >= 1) =>
          /\ gd.pc = "list2" /\ obs'.listReqs = 2
          /\ (gd.devices = <<>> => obs'.liveReqs = 0)

\* C29: get_data processes the devices of the first list response one at a
\* time and in order: the descriptor of a device is requested, its worker
\* started and its wait and join ended before the next device is looked at,
\* and the second list request follows the last device; with an empty first
\* list it makes two list requests and no live request.
C29_DevicesInOrder ==
    [](OneRequestPerDevice) /\ [][StepInOrder]_vars

\* C29 witness: the worker of the second device has been started after the
\* wait and the join for the first device's worker.
C29_Witness ==
    /\ gd.pc = "wait" /\ gd.idx = 2 /\ obs.liveReqs = 2
    /\ nthreads = 2 /\ gd.ws_thread = 2

\* C30: when the wait for the current device is left because the flag is
\* done, the wait budget not being the reason, the current device's own
\* worker has finished.
C30_WaitEndsOnOwnWorker ==
    [][(gd.pc = "wait" /\ gd'.pc = "join" /\ waiting_for_ws_thread_to_end = 0) =>
          ws[gd.ws_thread].pc = "dead"]_vars

\* C35: after a login call that was answered 401 no session token is stored,
\* whether or not one was stored before the call.
C35_NoTokenAfterLogin401 ==
    (obs.op = "login" /\ Is401(obs.lx)) => auth_cookie = None

\* C37: a trigger_regeneration service call that has ended either called the
\* client once and returned, or failed with ValueError; it ends with no other
\* error kind.
C37_ServiceFailsOnlyWithValueError ==
    ServiceDone =>
        \/ hass.svc.ret = "ValueError"
        \/ hass.svc.ret = "None" /\ regens = hass.svc.regens0 + 1

\* C38: a step of the configuration flow whose login succeeded for an email
\* that is already the unique id of an entry ends with an abort result and
\* creates no entry.
C38_ConfiguredAccountAborts ==
    (hass.flow.login = "ok" /\ hass.flow.input.email \in hass.flow.before) =>
        (hass.flow.type = "abort" /\ hass.flow.entries = hass.flow.before)

\* C39: a step of the configuration flow submitted with an empty email or an
\* empty password shows the form with error invalid_auth, having made no
\* login request and created no entry.
C39_EmptyFieldIsInvalidAuth ==
    LET f == hass.flow IN
    (f.input.given /\ (f.input.email = "" \/ f.input.password = "")) =>
        /\ f.type = "form" /\ f.errors = "invalid_auth"
        /\ f.login = "none" /\ f.lx = NoExchange
        /\ f.entries = f.before

\* C39 witness: an email was submitted with an empty password.
C39_Witness ==
    /\ hass.flow.input.given /\ hass.flow.input.email = "a@x"
    /\ hass.flow.input.password = "" /\ hass.flow.errors = "invalid_auth"

\* C36: reading native_value of a sensor whose device, or whose property, is
\* missing from the latest snapshot gives None and raises nothing.
C36_MissingIsNone ==
    (hass.sensor.read /\ hass.sensor.missing # "none") =>
        hass.sensor.value = PyNone

\* C32: a session starts with the message counter at 0, every message it
\* receives adds one to the counter, and the message that brings the counter
\* to the threshold closes the connection.
C32_CountsAndClosesAtThreshold ==
    [][\A w \in Workers :
          /\ (ws[w].pc = "new" /\ ws'[w].pc = "open") => ws_message_count' = 0
          /\ ws'[w].recv = ws[w].recv + 1 =>
                /\ ws_message_count' = ws_message_count + 1
                /\ ws_message_count' = Threshold =>
                      (ws'[w].pc = "closing"
                         /\ ws'[w].closeCalls = ws[w].closeCalls + 1)]_vars

\* C33: handling a malformed message leaves the completion flag as it was
\* and the session running; the connection is closed by that message only
\* when the counter has reached the threshold, and below the threshold the
\* session stays open for the next message.
C33_MalformedNeverAborts ==
    [][\A w \in Workers :
          (ws'[w].recv = ws[w].recv + 1 /\ ws'[w].bad = "last") =>
              /\ waiting_for_ws_thread_to_end' = waiting_for_ws_thread_to_end
              /\ ws'[w].pc \in {"open", "closing"}
              /\ ws'[w].pc = "closing" => ws_message_count' >= Threshold
              /\ ws_message_count' < Threshold => ws'[w].pc = "open"]_vars

\* C33 witness: a session that handled a malformed message has handled a
\* later message and is still open, the orchestrator still waiting.
C33_Witness ==
    \E w \in Workers :
        /\ ws[w].bad = "earlier" /\ ws[w].recv >= 2 /\ ws[w].pc = "open"
        /\ gd.pc = "wait" /\ waiting_for_ws_thread_to_end = 1

\* what a skipped device leaves alone, and where the loop goes
SkipFrame ==
    /\ ws_message_count' = ws_message_count
    /\ waiting_for_ws_thread_to_end' = waiting_for_ws_thread_to_end
    /\ ws_uri' = ws_uri
    /\ nthreads' = nthreads /\ ws' = ws
    /\ gd'.pc = "device" /\ gd'.idx = gd.idx + 1

\* C34: at the head of the device loop, a device without id is passed
\* without a live-descriptor request and a device whose descriptor has no
\* connection URI without a worker being started; both leave the message
\* counter, the completion flag and the stored URI as they were and the loop
\* goes on with the next device.
C34_SkippedDeviceChangesNothing ==
    [][(gd.pc = "device" /\ gd.idx <= Len(gd.devices) /\ gd' # gd) =>
          /\ gd.devices[gd.idx].id = NoId =>
                (obs'.liveReqs = obs.liveReqs /\ SkipFrame)
          /\ (obs'.liveReqs = obs.liveReqs + 1 /\ obs'.noUri) => SkipFrame]_vars

\* C34 witness: the first device got a worker, the second device's descriptor
\* had no URI, and the loop has moved past it with the first worker's URI
\* still stored.
C34_Witness ==
    /\ gd.pc = "device" /\ gd.idx = 3 /\ obs.noUri /\ obs.liveReqs = 2
    /\ nthreads = 1 /\ ws_uri = WS_BASE_URL \o WsPath(gd.devices[1].id)

\* C31: the requests of one get_data call all carry the same, non-empty
\* session token.
C31_OneTokenPerCall ==
    obs.op = "get_data" =>
        (Cardinality(obs.sent) <= 1 /\ None \notin obs.sent)

====
